---- MODULE Spec2Model ----
(***************************************************************************)
(* State-machine model of the ts-websocket connection controller           *)
(* (src/src/controllers/WebSocketController.ts), its token authenticator   *)
(* (src/src/services/AuthService.ts) and the configuration defaults        *)
(* (src/src/api/WebSocketManager.ts, src/src/utils/Config.ts).             *)
(*                                                                         *)
(* Node.js runs every event handler to completion, so each action below    *)
(* is one whole handler: an upgrade, one inbound frame, one transport      *)
(* event, or one call of the public API.  The `ws` transport is modelled   *)
(* by what the controller relies on: readyState, the server's own client   *)
(* set, send() writing only while OPEN and close() acting only while OPEN. *)
(***************************************************************************)
EXTENDS Integers, Sequences, FiniteSets, TLC

(* ---------------------------------------------------------------- bounds *)
NumConns  == 2      \* connection handles 1..NumConns, never reused
MaxFrames == 2      \* inbound frames handled in one behaviour
MaxTime   == 1      \* clock ticks (hours)

Conns == 1..NumConns

(* ------------------------------------------------------------ vocabulary *)
NULL      == "<null>"        \* JavaScript null / undefined
ABSENT    == "<absent>"      \* a JSON property that is not there
Anonymous == "Anonymous"

Identities == {"alice", ""}          \* usernames handed to generateToken
ClientSenders == {ABSENT, "forged"}  \* sender values a client may put in a frame
Contents  == {"hi"}

Truthy(v) == v # NULL /\ v # ""

VARIABLES
  secretKey,     \* AuthService.secretKey
  tokenExpiry,   \* AuthService.tokenExpiry, in clock ticks
  beforeSend,    \* TRUE iff WebSocketController.beforeSend is set
  afterSend,     \* TRUE iff WebSocketController.afterSend is set
  onMessage,     \* TRUE iff WebSocketController.onMessage is set
  clients,       \* WebSocketController.clients : handle -> identity
  wssClients,    \* wss.clients, the transport's own set of sockets
  wssState,      \* state of the connection acceptor ("CRASHED": the process
                 \* has terminated)
  readyState,    \* ws.readyState per handle ("NONE" before the upgrade)
  listening,     \* handles on which onConnection installed its listeners
  user,          \* the `user` constant captured by those listeners
  recvEnded,     \* the receiver of the handle delivers no further frame
  outbox,        \* what was written to each handle, in order
  now,           \* the clock
  frames,        \* number of inbound frames handled so far
  calls,         \* hooks, handler, broadcast and close calls made by the
                 \* handler or API call that ran last, in order
  authResult     \* what the last direct call of the AuthService returned

vars == <<secretKey, tokenExpiry, beforeSend, afterSend, onMessage, clients,
          wssClients, wssState, readyState, listening, user, recvEnded,
          outbox, now, frames, calls, authResult>>

config   == <<secretKey, tokenExpiry>>
hooks    == <<beforeSend, afterSend, onMessage>>

(* --------------------------------------------------------- configuration *)
Or_NullOnly(a, b) == IF a = NULL THEN b ELSE a

\* JavaScript `a || b` on strings
Or(a, b) == IF Truthy(a) THEN a ELSE b

\* what the caller may pass as options.secretKey and options.tokenExpiry
\* (NULL: left out)
TestOptions == [secretKey |-> "sampleCecretKey", tokenExpiry |-> NULL]
Options == {[secretKey |-> NULL, tokenExpiry |-> NULL],
            [secretKey |-> "",   tokenExpiry |-> ""],
            [secretKey |-> "sampleCecretKey", tokenExpiry |-> "2h"],
            TestOptions}

\* WebSocketManager constructor, then Config constructor
ManagerSecret(opt) == Or(opt, "default_secret")
ManagerExpiry(opt) == Or(opt, "1h")
ConfigSecret(opt)  == Or(opt, "default_secret_key")
ConfigExpiry(opt)  == Or(opt, "1h")

\* the `expiresIn` duration strings, in clock ticks of one hour
Duration(s) == CASE s = "1h" -> 1
                 [] s = "2h" -> 2
                 [] OTHER    -> 0

(* ---------------------------------------------------------------- tokens *)
\* A token string is modelled by what jwt.verify can tell about it:
\*   kind "absent"  no token parameter in the query (params.get gives null)
\*   kind "empty"   "?token="
\*   kind "garbage" a non-empty string that is not a JWT
\*   kind "jwt"     a JWT carrying username and exp, whose signature
\*                  verifies under `key` only ("<tampered>": under no key)
NoToken      == [kind |-> "absent",  username |-> NULL, key |-> NULL, exp |-> 0]
EmptyToken   == [kind |-> "empty",   username |-> NULL, key |-> NULL, exp |-> 0]
GarbageToken == [kind |-> "garbage", username |-> NULL, key |-> NULL, exp |-> 0]

Jwt(u, k, e) == [kind |-> "jwt", username |-> u, key |-> k, exp |-> e]

\* AuthService.generateToken called at time t
generateToken(username, t) ==
  Jwt(username, secretKey, t + Duration(tokenExpiry))

jwtVerify_NoExpiry(token, key, t) ==
  IF token.kind # "jwt"      THEN [thrown |-> TRUE,  username |-> NULL]
  ELSE IF token.key # key    THEN [thrown |-> TRUE,  username |-> NULL]
  ELSE                            [thrown |-> FALSE, username |-> token.username]

jwtVerify_LateExpiry(token, key, t) ==
  IF token.kind # "jwt"      THEN [thrown |-> TRUE,  username |-> NULL]
  ELSE IF token.key # key    THEN [thrown |-> TRUE,  username |-> NULL]
  ELSE IF t > token.exp      THEN [thrown |-> TRUE,  username |-> NULL]
  ELSE                            [thrown |-> FALSE, username |-> token.username]

\* jwt.verify: throws on a malformed token, a bad signature or an expired
\* token (clockTimestamp >= exp), otherwise returns the payload
jwtVerify(token, key, t) ==
  IF token.kind # "jwt"      THEN [thrown |-> TRUE,  username |-> NULL]
  ELSE IF token.key # key    THEN [thrown |-> TRUE,  username |-> NULL]
  ELSE IF t >= token.exp     THEN [thrown |-> TRUE,  username |-> NULL]
  ELSE                            [thrown |-> FALSE, username |-> token.username]

RAISED == "<raised>"     \* an exception escaping to the caller

verifyToken_NoCatch(token, t) ==
  LET decoded == jwtVerify(token, secretKey, t)
  IN  IF decoded.thrown THEN RAISED ELSE decoded.username

\* AuthService.verifyToken at time t
verifyToken(token, t) ==
  LET decoded == jwtVerify(token, secretKey, t)
  IN  IF decoded.thrown THEN NULL ELSE decoded.username

\* the upgrade request's url: undefined, or a query with the token parameter
NoUrl == [defined |-> FALSE, token |-> NoToken]
Url(tok) == [defined |-> TRUE, token |-> tok]

\* tokens a client can hold at the current time: issued by generateToken at
\* some earlier time, or signed with another key, or tampered with
ForeignKeys == {"wrong_secret", "<tampered>"}
Tokens ==
  {NoToken, EmptyToken, GarbageToken}
  \cup {generateToken(u, iat) : u \in Identities, iat \in 0..now}
  \cup {Jwt(u, k, iat + Duration(tokenExpiry)) :
          u \in Identities, k \in ForeignKeys, iat \in 0..now}
Urls == {NoUrl} \cup {Url(tok) : tok \in Tokens}

\* WebSocketController.extractToken: null when the url or the parameter is
\* missing, otherwise the parameter's value (possibly the empty string)
extractToken(url) == IF ~url.defined THEN NoToken ELSE url.token

TokenTruthy_NotUndefined(token) == TRUE

TokenTruthy_EmptyIsToken(token) == token.kind # "absent"

\* JavaScript truthiness of the extracted token string
TokenTruthy(token) == token.kind \notin {"absent", "empty"}

(* ------------------------------------------------------------- transport *)
\* what the controller writes to a socket (the outbox holds these)
ErrorPayload(text) == [tag |-> "error", error |-> text]
MsgPayload(s, c)   == [tag |-> "msg", sender |-> s, content |-> c]
CloseFrame(code)   == [tag |-> "close", code |-> code]   \* code 0: no status code

\* The pair (readyState, outbox) threaded through one handler
Tr(rs, ob) == [rs |-> rs, ob |-> ob]

\* ws.send: written while OPEN, discarded without an exception otherwise
WsSend(t, c, payload) ==
  IF t.rs[c] = "OPEN" THEN [t EXCEPT !.ob[c] = Append(@, payload)] ELSE t

WsClose_Always(t, c, code) ==
  [t EXCEPT !.rs[c] = "CLOSING", !.ob[c] = Append(@, CloseFrame(code))]

\* ws.close(code): sends the close frame and moves OPEN -> CLOSING;
\* a no-op on a socket that is already CLOSING or CLOSED
WsClose(t, c, code) ==
  IF t.rs[c] = "OPEN"
  THEN [t EXCEPT !.rs[c] = "CLOSING", !.ob[c] = Append(@, CloseFrame(code))]
  ELSE t

(* ------------------------------------------------------------------ Init *)
\* the state after `new WebSocketManager(options)` with the given hooks
Constructed(options, pre, post, handler) ==
  /\ secretKey   = ConfigSecret(ManagerSecret(options.secretKey))
  /\ tokenExpiry = ConfigExpiry(ManagerExpiry(options.tokenExpiry))
  /\ beforeSend  = pre
  /\ afterSend   = post
  /\ onMessage   = handler
  /\ clients     = << >>
  /\ wssClients  = {}
  /\ wssState    = "RUNNING"
  /\ readyState  = [c \in Conns |-> "NONE"]
  /\ listening   = {}
  /\ user        = [c \in Conns |-> NULL]
  /\ recvEnded   = [c \in Conns |-> FALSE]
  /\ outbox      = [c \in Conns |-> << >>]
  /\ now         = 0
  /\ frames      = 0
  /\ calls       = << >>
  /\ authResult  = [fn |-> "none"]

\* the server of the test suite (secretKey given, tokenExpiry defaulted),
\* with any choice of hooks and handler
Init ==
  \E pre \in BOOLEAN, post \in BOOLEAN, handler \in BOOLEAN :
     Constructed(TestOptions, pre, post, handler)

\* the server exactly as the test suite constructs it: no hooks, no handler
InitPlain == Constructed(TestOptions, FALSE, FALSE, FALSE)

MapSet_ByIdentity(m, k, v) ==
  [x \in {y \in DOMAIN m : m[y] # v} \cup {k} |-> IF x = k THEN v ELSE m[x]]

MapDelete_Clear(m, k) == << >>
MapDelete_Noop(m, k)  == m

\* Map.set / Map.delete on the registry
MapSet(m, k, v) == [x \in (DOMAIN m) \cup {k} |-> IF x = k THEN v ELSE m[x]]
MapDelete(m, k) == [x \in (DOMAIN m) \ {k} |-> m[x]]

(* --------------------------------------------------------------- upgrade *)
\* the handle of the next socket the transport creates
NextHandle == CHOOSE c \in Conns :
                /\ readyState[c] = "NONE"
                /\ \A d \in Conns : readyState[d] = "NONE" => c <= d

rejectConnection_CloseFirst(t, c) ==
  WsSend(WsClose(t, c, 1008), c, ErrorPayload("Authentication Failed"))

rejectConnection_NoClose(t, c) ==
  WsSend(t, c, ErrorPayload("Authentication Failed"))

\* lines 135-136: error payload to the rejected socket, then close 1008
rejectConnection(t, c) ==
  WsClose(WsSend(t, c, ErrorPayload("Authentication Failed")), c, 1008)

\* WebSocketController.onConnection(ws, request) for the fresh socket c
onConnection(c, url) ==
  LET token    == extractToken(url)
      username == IF TokenTruthy(token) THEN verifyToken(token, now) ELSE NULL
      t0       == Tr([readyState EXCEPT ![c] = "OPEN"], outbox)
  IN  IF username = RAISED
      THEN \* the exception leaves the handler: nothing was set up
           /\ readyState' = t0.rs
           /\ UNCHANGED <<clients, listening, user, outbox>>
      ELSE IF TokenTruthy(token) /\ ~Truthy(username)
      THEN LET t2 == rejectConnection(t0, c)
           IN  /\ readyState' = t2.rs
               /\ outbox' = t2.ob
               /\ UNCHANGED <<clients, listening, user>>
      ELSE LET u == Or(username, Anonymous)
           IN  /\ clients' = MapSet(clients, c, u)
               /\ listening' = listening \cup {c}
               /\ user' = [user EXCEPT ![c] = u]
               /\ readyState' = t0.rs
               /\ UNCHANGED outbox

\* WebSocketController.handleUpgrade: the transport completes the handshake,
\* adds the socket to wss.clients and emits 'connection'.  An acceptor that
\* has been closed answers 503 and never emits 'connection'.
handleUpgrade(url) ==
  /\ wssState = "RUNNING"
  /\ \E c \in Conns : readyState[c] = "NONE"
  /\ LET c == NextHandle
     IN  /\ wssClients' = wssClients \cup {c}
         /\ onConnection(c, url)
  /\ calls' = << >>
  /\ UNCHANGED <<config, hooks, wssState, recvEnded, now, frames, authResult>>

(* ---------------------------------------------------------------- frames *)
\* An inbound frame, by what JSON.parse makes of it:
\*   "notjson"    JSON.parse throws a SyntaxError
\*   "primitive"  a number, string or boolean; "null": the value null
\*   "array"      a JSON array
\*   "object"     a JSON object with or without sender / content
Frame(k, s, c) == [kind |-> k, sender |-> s, content |-> c]
Envelopes == {Frame("object", s, c) : s \in ClientSenders \ {ABSENT}, c \in Contents}
Undecodable == {Frame(k, ABSENT, ABSENT) : k \in {"notjson", "primitive", "null"}}

\* the frames of the main specification: one of each path through the
\* handler (every kind that fails to decode, and the message envelope)
PipelineFrames == Undecodable \cup Envelopes

decode_KeepSender(frame, u) ==
  IF frame.kind \in {"notjson", "primitive", "null"}
  THEN [failed |-> TRUE,  message |-> Frame(frame.kind, ABSENT, ABSENT)]
  ELSE [failed |-> FALSE, message |-> Frame(frame.kind, frame.sender, frame.content)]

decode_StampIfMissing(frame, u) ==
  IF frame.kind \in {"notjson", "primitive", "null"}
  THEN [failed |-> TRUE,  message |-> Frame(frame.kind, ABSENT, ABSENT)]
  ELSE [failed |-> FALSE,
        message |-> Frame(frame.kind,
                          IF frame.sender = ABSENT THEN u ELSE frame.sender,
                          frame.content)]

\* lines 148-156: message = JSON.parse(data); message.sender = user.
\* The assignment throws a TypeError on null and (strict mode) on a
\* primitive; on an array it adds a named property.
decode(frame, u) ==
  IF frame.kind \in {"notjson", "primitive", "null"}
  THEN [failed |-> TRUE,  message |-> Frame(frame.kind, ABSENT, ABSENT)]
  ELSE [failed |-> FALSE, message |-> Frame(frame.kind, u, frame.content)]

\* JSON.stringify(message): an array serialises without its named properties
stringify(message) ==
  IF message.kind = "array"
  THEN [tag |-> "array", sender |-> ABSENT, content |-> ABSENT]
  ELSE MsgPayload(message.sender, message.content)

\* a caller-supplied hook or handler is an observer of the message it is
\* handed: it returns or it throws
Outcomes == {"return", "throw"}

(* ------------------------------------------------------------- broadcast *)
\* the sockets one fan-out pass writes to
Recipients(t) == {p \in wssClients : t.rs[p] = "OPEN"}

broadcastMessage_Prepend(t, message) ==
  [t EXCEPT !.ob = [p \in Conns |->
      IF p \in wssClients /\ t.rs[p] = "OPEN"
      THEN <<stringify(message)>> \o t.ob[p]
      ELSE t.ob[p]]]

broadcastMessage_PrependForFirst(t, message) ==
  [t EXCEPT !.ob = [p \in Conns |->
      IF p \in wssClients /\ t.rs[p] = "OPEN"
      THEN IF p = 1 THEN <<stringify(message)>> \o t.ob[p]
                    ELSE Append(t.ob[p], stringify(message))
      ELSE t.ob[p]]]

broadcastMessage_NoStateCheck(t, message) ==
  [t EXCEPT !.ob = [p \in Conns |->
      IF p \in wssClients
      THEN Append(t.ob[p], stringify(message))
      ELSE t.ob[p]]]

broadcastMessage_AlsoRegistry(t, message) ==
  [t EXCEPT !.ob = [p \in Conns |->
      LET first == IF p \in wssClients /\ t.rs[p] = "OPEN"
                   THEN Append(t.ob[p], stringify(message))
                   ELSE t.ob[p]
      IN  IF p \in DOMAIN clients /\ t.rs[p] = "OPEN"
          THEN Append(first, stringify(message))
          ELSE first]]

\* WebSocketController.broadcastMessage
broadcastMessage(t, message) ==
  [t EXCEPT !.ob = [p \in Conns |->
      IF p \in wssClients /\ t.rs[p] = "OPEN"
      THEN Append(t.ob[p], stringify(message))
      ELSE t.ob[p]]]

Call(fn, message, outcome) == [fn |-> fn, message |-> message, outcome |-> outcome]

onDecodeFailure_ErrorToAll(t, c) ==
  WsClose([t EXCEPT !.ob = [p \in Conns |->
             IF t.rs[p] = "OPEN"
             THEN Append(t.ob[p], ErrorPayload("Invalid JSON format"))
             ELSE t.ob[p]]], c, 0)

\* the catch block of lines 151-156: error payload to the sender, then close
onDecodeFailure(t, c) ==
  WsClose(WsSend(t, c, ErrorPayload("Invalid JSON format")), c, 0)

(* ------------------------------------------------------- message handler *)
\* what a run of the try block of lines 158-171 leaves behind: the transport,
\* the calls it made in order, and whether an exception left it
Ran(t, invoked, thrown) == [t |-> t, calls |-> invoked, thrown |-> thrown]

\* line 160: this.onMessage(message)
customHandler(t, m, h) ==
  Ran(t, <<Call("onMessage", m, h)>>, h = "throw")

defaultSequence_BroadcastFirst(t, m, pre, post) ==
  LET preThrew  == beforeSend /\ pre = "throw"
      runPost   == ~preThrew /\ afterSend
      postThrew == runPost /\ post = "throw"
  IN  Ran(broadcastMessage(t, m),
             <<Call("broadcast", m, "return")>>
          \o (IF beforeSend THEN <<Call("beforeSend", m, pre)>>  ELSE << >>)
          \o (IF runPost    THEN <<Call("afterSend", m, post)>>  ELSE << >>),
          preThrew \/ postThrew)

defaultSequence_PostFirst(t, m, pre, post) ==
  LET postThrew    == afterSend /\ post = "throw"
      runPre       == beforeSend /\ ~postThrew
      preThrew     == runPre /\ pre = "throw"
      runBroadcast == ~postThrew /\ ~preThrew
  IN  Ran(IF runBroadcast THEN broadcastMessage(t, m) ELSE t,
             (IF afterSend    THEN <<Call("afterSend", m, post)>>      ELSE << >>)
          \o (IF runPre       THEN <<Call("beforeSend", m, pre)>>      ELSE << >>)
          \o (IF runBroadcast THEN <<Call("broadcast", m, "return")>>  ELSE << >>),
          preThrew \/ postThrew)

\* lines 162-170: pre-hook if set, fan-out, post-hook if set; an exception
\* ends the sequence where it is thrown
defaultSequence(t, m, pre, post) ==
  LET runPre       == beforeSend
      preThrew     == runPre /\ pre = "throw"
      runBroadcast == ~preThrew
      runPost      == runBroadcast /\ afterSend
      postThrew    == runPost /\ post = "throw"
  IN  Ran(IF runBroadcast THEN broadcastMessage(t, m) ELSE t,
             (IF runPre       THEN <<Call("beforeSend", m, pre)>>      ELSE << >>)
          \o (IF runBroadcast THEN <<Call("broadcast", m, "return")>>  ELSE << >>)
          \o (IF runPost      THEN <<Call("afterSend", m, post)>>      ELSE << >>),
          preThrew \/ postThrew)

dispatch_HandlerThenDefault(t, m, pre, post, h) ==
  IF onMessage /\ h = "throw" THEN customHandler(t, m, h)
  ELSE IF onMessage
  THEN LET r == defaultSequence(t, m, pre, post)
       IN  Ran(r.t, <<Call("onMessage", m, h)>> \o r.calls, r.thrown)
  ELSE defaultSequence(t, m, pre, post)

\* lines 159-171: the custom handler if one is set, the default sequence
\* otherwise
dispatch(t, m, pre, post, h) ==
  IF onMessage THEN customHandler(t, m, h)
  ELSE defaultSequence(t, m, pre, post)

onProcessingFailure_Close(t, c) ==
  WsClose(WsSend(t, c, ErrorPayload("Internal server error")), c, 0)

onProcessingFailure_ErrorToAll(t, c) ==
  [t EXCEPT !.ob = [p \in Conns |->
      IF t.rs[p] = "OPEN"
      THEN Append(t.ob[p], ErrorPayload("Internal server error"))
      ELSE t.ob[p]]]

\* the catch block of lines 172-175: error payload to the sender
onProcessingFailure(t, c) ==
  WsSend(t, c, ErrorPayload("Internal server error"))

\* the 'message' listener of socket c (lines 145-176); pre, post and h are
\* what the hooks and the custom handler do if they are invoked
onMessageEvent(c, frame, pre, post, h) ==
  LET d  == decode(frame, user[c])
      t0 == Tr(readyState, outbox)
  IN  IF d.failed
      THEN LET t2 == onDecodeFailure(t0, c)
           IN  /\ readyState' = t2.rs
               /\ outbox' = t2.ob
               /\ calls' = << >>
      ELSE LET r  == dispatch(t0, d.message, pre, post, h)
               t2 == IF r.thrown THEN onProcessingFailure(r.t, c) ELSE r.t
           IN  /\ readyState' = t2.rs
               /\ outbox' = t2.ob
               /\ calls' = r.calls

\* a frame arrives on c: the transport emits 'message' on every socket whose
\* receiver is still running, CLOSING ones included; only sockets accepted
\* by onConnection have a listener for it
MessageEvent(c, frame, pre, post, h) ==
  /\ c \in listening
  /\ readyState[c] \in {"OPEN", "CLOSING"}
  /\ ~recvEnded[c]
  /\ frames < MaxFrames
  /\ frames' = frames + 1
  /\ onMessageEvent(c, frame, pre, post, h)
  /\ UNCHANGED <<config, hooks, clients, wssClients, wssState, listening,
                 user, recvEnded, now, authResult>>

\* the same on a server that has neither hooks nor handler: none is called,
\* so how one would end plays no part
PlainMessageEvent(c, frame) == MessageEvent(c, frame, "return", "return", "return")

(* ------------------------------------------------------ transport events *)
TransportClosing_Reopen(rs, c) == [rs EXCEPT ![c] = "OPEN"]

\* the transport's own move OPEN -> CLOSING (a close frame from the peer, a
\* lost network connection, a protocol error); what the transport itself
\* writes while doing so is not part of the outbox
TransportClosing(rs, c) == [rs EXCEPT ![c] = "CLOSING"]

\* the peer's close frame arrives or the network connection of c is lost:
\* the socket becomes CLOSING and its receiver delivers nothing more
PeerGone(c) ==
  /\ readyState[c] \in {"OPEN", "CLOSING"}
  /\ ~recvEnded[c]
  /\ readyState' = TransportClosing(readyState, c)
  /\ recvEnded' = [recvEnded EXCEPT ![c] = TRUE]
  /\ calls' = << >>
  /\ UNCHANGED <<config, hooks, clients, wssClients, wssState, listening,
                 user, outbox, now, frames, authResult>>

CloseEvent_KeepEntry(c) ==
  /\ readyState[c] = "CLOSING"
  /\ readyState' = [readyState EXCEPT ![c] = "CLOSED"]
  /\ wssClients' = wssClients \ {c}
  /\ calls' = << >>
  /\ UNCHANGED <<config, hooks, clients, wssState, listening, user, recvEnded,
                 outbox, now, frames, authResult>>

\* the transport emits 'close' on c: the server's own listener drops c from
\* wss.clients, and the listener of lines 178-181, if installed, unregisters it
CloseEvent(c) ==
  /\ readyState[c] = "CLOSING"
  /\ readyState' = [readyState EXCEPT ![c] = "CLOSED"]
  /\ wssClients' = wssClients \ {c}
  /\ clients' = IF c \in listening THEN MapDelete(clients, c) ELSE clients
  /\ calls' = << >>
  /\ UNCHANGED <<config, hooks, wssState, listening, user, recvEnded,
                 outbox, now, frames, authResult>>

\* the transport emits 'error' on an accepted socket c (lines 183-185): the
\* receiver has stopped and the transport has started the close on its own;
\* the listener only logs
ErrorEvent(c) ==
  /\ c \in listening
  /\ readyState[c] \in {"OPEN", "CLOSING"}
  /\ ~recvEnded[c]
  /\ readyState' = TransportClosing(readyState, c)
  /\ recvEnded' = [recvEnded EXCEPT ![c] = TRUE]
  /\ calls' = << >>
  /\ UNCHANGED <<config, hooks, clients, wssClients, wssState, listening,
                 user, outbox, now, frames, authResult>>

\* the transport emits 'error' on a socket that onConnection rejected: the
\* return of line 138 left it without an 'error' listener, so the emit
\* throws, nothing catches the exception and the process terminates, taking
\* the registry and every connection with it
UncaughtException == [fn |-> "uncaughtException"]

UnhandledErrorEvent(c) ==
  /\ wssState # "CRASHED"
  /\ c \notin listening
  /\ readyState[c] \in {"OPEN", "CLOSING"}
  /\ ~recvEnded[c]
  /\ wssState' = "CRASHED"
  /\ clients' = << >>
  /\ wssClients' = {}
  /\ readyState' = [d \in Conns |-> IF readyState[d] = "NONE" THEN "NONE" ELSE "CLOSED"]
  /\ recvEnded' = [d \in Conns |-> readyState[d] # "NONE"]
  /\ calls' = <<UncaughtException>>
  /\ UNCHANGED <<config, hooks, listening, user, outbox, now, frames, authResult>>

(* ------------------------------------------------------------ public API *)
RECURSIVE CloseAll(_, _)
CloseAll(t, S) ==
  IF S = {} THEN t
  ELSE LET c == CHOOSE x \in S : TRUE
       IN  CloseAll(WsClose(t, c, 1001), S \ {c})

\* the keys of the registry in Map.forEach order: insertion order, which is
\* the order of the handles
RECURSIVE InOrder(_)
InOrder(S) ==
  IF S = {} THEN << >>
  ELSE LET c == CHOOSE x \in S : \A y \in S : x <= y
       IN  <<c>> \o InOrder(S \ {c})

CloseCall(c, code) == [fn |-> "ws.close", socket |-> c, code |-> code]
AcceptorClose      == [fn |-> "wss.close"]

closeCalls_AcceptorFirst(S) ==
  <<AcceptorClose>> \o [i \in 1..Cardinality(S) |-> CloseCall(InOrder(S)[i], 1001)]

\* lines 224-229: what close() calls, in order
closeCalls(S) ==
  [i \in 1..Cardinality(S) |-> CloseCall(InOrder(S)[i], 1001)] \o <<AcceptorClose>>

close_AcceptorOnly ==
  /\ wssState # "CRASHED"
  /\ wssState' = "CLOSING"
  /\ calls' = <<AcceptorClose>>
  /\ UNCHANGED <<config, hooks, clients, wssClients, readyState, listening,
                 user, recvEnded, outbox, now, frames, authResult>>

\* WebSocketController.close (WebSocketManager.stop)
close ==
  /\ wssState # "CRASHED"
  /\ LET t == CloseAll(Tr(readyState, outbox), DOMAIN clients)
     IN  readyState' = t.rs /\ outbox' = t.ob
  /\ wssState' = "CLOSING"
  /\ calls' = closeCalls(DOMAIN clients)
  /\ UNCHANGED <<config, hooks, clients, wssClients, listening, user,
                 recvEnded, now, frames, authResult>>

setLifecycleHooks_KeepOmitted(pre, post) ==
  /\ wssState # "CRASHED"
  /\ beforeSend' = (pre \/ beforeSend)
  /\ afterSend' = (post \/ afterSend)
  /\ calls' = << >>
  /\ UNCHANGED <<config, onMessage, clients, wssClients, wssState, readyState,
                 listening, user, recvEnded, outbox, now, frames, authResult>>

\* WebSocketController.setLifecycleHooks; an argument is TRUE if a function
\* was passed for it and FALSE if it was omitted
setLifecycleHooks(pre, post) ==
  /\ wssState # "CRASHED"
  /\ beforeSend' = pre
  /\ afterSend' = post
  /\ calls' = << >>
  /\ UNCHANGED <<config, onMessage, clients, wssClients, wssState, readyState,
                 listening, user, recvEnded, outbox, now, frames, authResult>>

Tick_DropExpired ==
  /\ now < MaxTime
  /\ now' = now + 1
  /\ clients' = [c \in {d \in DOMAIN clients : clients[d] = Anonymous} |-> clients[c]]
  /\ UNCHANGED <<config, hooks, wssClients, wssState, readyState,
                 listening, user, recvEnded, outbox, frames, calls, authResult>>

\* time passes
Tick ==
  /\ now < MaxTime
  /\ now' = now + 1
  /\ UNCHANGED <<config, hooks, clients, wssClients, wssState, readyState,
                 listening, user, recvEnded, outbox, frames, calls, authResult>>

Next ==
  \/ \E url \in Urls : handleUpgrade(url)
  \/ \E c \in Conns, frame \in PipelineFrames, pre \in Outcomes,
        post \in Outcomes, h \in Outcomes :
          MessageEvent(c, frame, pre, post, h)
  \/ \E c \in Conns : PeerGone(c)
  \/ \E c \in Conns : CloseEvent(c)
  \/ \E c \in Conns : ErrorEvent(c)
  \/ \E c \in Conns : UnhandledErrorEvent(c)
  \/ close
  \/ \E pre \in BOOLEAN, post \in BOOLEAN : setLifecycleHooks(pre, post)
  \/ Tick

Spec == Init /\ [][Next]_vars

\* the transport completes every close it has started: the peer answers the
\* close frame, or the close timer of the socket destroys the connection
SpecLive == Spec /\ \A c \in Conns : WF_vars(CloseEvent(c))

(* ------------------------------------------- the authenticator by itself *)
\* AuthService.generateToken(username) called directly
GenerateTokenCall(username) ==
  /\ authResult' = [fn |-> "generateToken", username |-> username, at |-> now,
                     token |-> generateToken(username, now)]
  /\ UNCHANGED <<config, hooks, clients, wssClients, wssState, readyState,
                 listening, user, recvEnded, outbox, now, frames, calls>>

\* AuthService.verifyToken(token) called directly with any string
VerifyTokenCall(token) ==
  /\ authResult' = [fn |-> "verifyToken", token |-> token, at |-> now,
                     result |-> verifyToken(token, now)]
  /\ UNCHANGED <<config, hooks, clients, wssClients, wssState, readyState,
                 listening, user, recvEnded, outbox, now, frames, calls>>

\* a service constructed from any of the option sets, no hooks
InitAuth == \E options \in Options : Constructed(options, FALSE, FALSE, FALSE)

NextAuth ==
  \/ \E u \in Identities : GenerateTokenCall(u)
  \/ \E token \in Tokens \ {NoToken} : VerifyTokenCall(token)
  \/ Tick

SpecAuth == InitAuth /\ [][NextAuth]_vars

(* ------------------------------------------------ frames in arrival order *)
\* the envelope a client sends as the next frame to arrive at the server:
\* its content is its arrival number
NumberedFrame == Frame("object", "forged", frames + 1)

\* alice's token, issued when the server started
AliceUrl == Url(generateToken("alice", 0))

\* connections, anonymous or alice's, come and go while numbered envelopes
\* arrive on them
NextOrder ==
  \/ \E url \in {NoUrl, AliceUrl} : handleUpgrade(url)
  \/ \E c \in Conns, pre \in Outcomes, post \in Outcomes, h \in Outcomes :
        MessageEvent(c, NumberedFrame, pre, post, h)
  \/ \E c \in Conns : PeerGone(c)
  \/ \E c \in Conns : CloseEvent(c)

SpecOrder == Init /\ [][NextOrder]_vars

(* --------------------------------------- sessions with every kind of frame *)
\* JSON that JSON.parse accepts and the assignment of sender does not
\* refuse: an array, an object with neither sender nor content, and an
\* object with content that names no sender
OtherJson == {Frame("array", ABSENT, ABSENT),
              Frame("object", ABSENT, ABSENT),
              Frame("object", ABSENT, "hi")}

AllFrames == PipelineFrames \cup OtherJson

\* anonymous connections and connections with alice's token, on the server
\* of the test suite, receive every kind of frame while time passes
NextSession ==
  \/ \E url \in {NoUrl, AliceUrl} : handleUpgrade(url)
  \/ \E c \in Conns, frame \in AllFrames : PlainMessageEvent(c, frame)
  \/ \E c \in Conns : PeerGone(c)
  \/ \E c \in Conns : CloseEvent(c)
  \/ Tick

SpecSession == InitPlain /\ [][NextSession]_vars

(* ------------------------------------------------ the parts of the server *)
\* upgrades only: clients with every kind of url connect and leave while
\* time passes, until the server is stopped
NextUpgrade ==
  \/ \E url \in Urls : handleUpgrade(url)
  \/ \E c \in Conns : PeerGone(c)
  \/ \E c \in Conns : CloseEvent(c)
  \/ close
  \/ Tick

SpecUpgrade == InitPlain /\ [][NextUpgrade]_vars

\* the server of the test suite while it runs: upgrades, frames, and
\* connections that go away
NextFanOut ==
  \/ \E url \in Urls : handleUpgrade(url)
  \/ \E c \in Conns, frame \in PipelineFrames : PlainMessageEvent(c, frame)
  \/ \E c \in Conns : PeerGone(c)
  \/ \E c \in Conns : CloseEvent(c)

SpecFanOut == InitPlain /\ [][NextFanOut]_vars

\* the same server until and after it is stopped
NextStop ==
  \/ \E url \in Urls : handleUpgrade(url)
  \/ \E c \in Conns, frame \in PipelineFrames : PlainMessageEvent(c, frame)
  \/ \E c \in Conns : PeerGone(c)
  \/ \E c \in Conns : CloseEvent(c)
  \/ close

SpecStop == InitPlain /\ [][NextStop]_vars

\* the same server with everything that can happen to its connections:
\* transport errors and the end of the process included
NextPlain ==
  \/ \E url \in Urls : handleUpgrade(url)
  \/ \E c \in Conns, frame \in PipelineFrames : PlainMessageEvent(c, frame)
  \/ \E c \in Conns : PeerGone(c)
  \/ \E c \in Conns : CloseEvent(c)
  \/ \E c \in Conns : ErrorEvent(c)
  \/ \E c \in Conns : UnhandledErrorEvent(c)
  \/ close

SpecPlain == InitPlain /\ [][NextPlain]_vars

\* the stopped server, where the transport completes every close it has
\* started
SpecStopLive == SpecStop /\ \A c \in Conns : WF_vars(CloseEvent(c))

\* a server with any choice of hooks and handler, whose hooks are replaced
\* while anonymous connections and alice's send frames
NextHooks ==
  \/ \E url \in {NoUrl, AliceUrl} : handleUpgrade(url)
  \/ \E c \in Conns, frame \in PipelineFrames, pre \in Outcomes,
        post \in Outcomes, h \in Outcomes :
          MessageEvent(c, frame, pre, post, h)
  \/ \E pre \in BOOLEAN, post \in BOOLEAN : setLifecycleHooks(pre, post)

SpecHooks == Init /\ [][NextHooks]_vars

\* a server with any choice of hooks and handler, on which anonymous
\* connections and alice's send every kind of frame
NextSenders ==
  \/ \E url \in {NoUrl, AliceUrl} : handleUpgrade(url)
  \/ \E c \in Conns, frame \in AllFrames, pre \in Outcomes,
        post \in Outcomes, h \in Outcomes :
          MessageEvent(c, frame, pre, post, h)

SpecSenders == Init /\ [][NextSenders]_vars

(* ------------------------------------------------- the gate at the upgrade *)
UnheardMessageEvent_Broadcast(c) ==
  /\ c \notin listening
  /\ readyState[c] \in {"OPEN", "CLOSING"}
  /\ ~recvEnded[c]
  /\ frames < MaxFrames
  /\ frames' = frames + 1
  /\ LET m == Frame("object", NULL, "hi")
         t == broadcastMessage(Tr(readyState, outbox), m)
     IN  /\ outbox' = t.ob
         /\ calls' = <<Call("broadcast", m, "return")>>
  /\ UNCHANGED <<config, hooks, clients, wssClients, wssState, readyState,
                 listening, user, recvEnded, now, authResult>>

\* a frame arrives on a socket that onConnection rejected: the return of
\* line 138 came before line 145, so 'message' has no listener and the
\* frame is dropped
UnheardMessageEvent(c) ==
  /\ c \notin listening
  /\ readyState[c] \in {"OPEN", "CLOSING"}
  /\ ~recvEnded[c]
  /\ frames < MaxFrames
  /\ frames' = frames + 1
  /\ calls' = << >>
  /\ UNCHANGED <<config, hooks, clients, wssClients, wssState, readyState,
                 listening, user, recvEnded, outbox, now, authResult>>

\* a token the server issued for the username "Anonymous" when it started
SentinelUrl == Url(generateToken(Anonymous, 0))
GarbageUrl  == Url(GarbageToken)
GateUrls    == {NoUrl, GarbageUrl, SentinelUrl}

\* clients without a token, with a string that is no token and with a token
\* issued for "Anonymous" connect and send frames, whether they were
\* accepted or not
NextGate ==
  \/ \E url \in GateUrls : handleUpgrade(url)
  \/ \E c \in Conns, frame \in PipelineFrames, pre \in Outcomes,
        post \in Outcomes, h \in Outcomes :
          MessageEvent(c, frame, pre, post, h)
  \/ \E c \in Conns : UnheardMessageEvent(c)
  \/ \E c \in Conns : PeerGone(c)
  \/ \E c \in Conns : CloseEvent(c)
  \/ Tick

SpecGate == Init /\ [][NextGate]_vars

\* every client connects with "?token="
EmptyUrl == Url(EmptyToken)

NextEmptyToken ==
  \/ handleUpgrade(EmptyUrl)
  \/ \E c \in Conns, frame \in PipelineFrames, pre \in Outcomes,
        post \in Outcomes, h \in Outcomes :
          MessageEvent(c, frame, pre, post, h)
  \/ \E c \in Conns : PeerGone(c)
  \/ \E c \in Conns : CloseEvent(c)

SpecEmptyToken == Init /\ [][NextEmptyToken]_vars

(* ================================================================ claims *)
Range(seq) == {seq[i] : i \in 1..Len(seq)}

AuthFailed  == ErrorPayload("Authentication Failed")
InvalidJson == ErrorPayload("Invalid JSON format")

\* a socket that went through the upgrade and was not accepted
Rejected(c) == readyState[c] # "NONE" /\ c \notin listening

\* what a token is at time t, read off the token itself
Malformed(token)    == token.kind = "garbage"
Tampered(token)     == token.kind = "jwt" /\ token.key # secretKey
Expired(token, t)   == token.kind = "jwt" /\ token.key = secretKey /\ t >= token.exp
Valid(token, t)     == token.kind = "jwt" /\ token.key = secretKey /\ t < token.exp

\* the same entry, or the same absence, in the registry before and after
SameEntry(d) ==
  /\ (d \in DOMAIN clients) = (d \in DOMAIN clients')
  /\ d \in DOMAIN clients => clients'[d] = clients[d]

C2_BadTokenRejected ==
  /\ [](\A c \in Conns : Rejected(c) =>
          /\ c \notin DOMAIN clients
          /\ readyState[c] \in {"CLOSING", "CLOSED"}
          /\ CloseFrame(1008) \in Range(outbox[c]))
  /\ [][\A url \in Urls, c \in Conns :
          (/\ handleUpgrade(url)
           /\ c = NextHandle
           /\ url.defined
           /\ \/ Malformed(url.token)
              \/ Tampered(url.token)
              \/ Expired(url.token, now))
          => Rejected(c)']_vars
  /\ [][\A c \in Conns : Rejected(c) => Rejected(c)']_vars

\* a rejected socket whose close has completed, next to a registered one
C2_Witness ==
  \E c \in Conns, d \in DOMAIN clients :
     /\ Rejected(c)
     /\ readyState[c] = "CLOSED"
     /\ CloseFrame(1008) \in Range(outbox[c])

\* C3: an upgrade request without a token is accepted, registered and bound
\* to "Anonymous", and leaves every other connection as it was; any number
\* of them end up OPEN and registered side by side.
C3_NoTokenAccepted ==
  [][\A url \in Urls :
       (handleUpgrade(url) /\ (~url.defined \/ url.token = NoToken))
       => LET c == NextHandle
          IN  /\ c \in DOMAIN clients'
              /\ clients'[c] = Anonymous
              /\ readyState'[c] = "OPEN"
              /\ c \in listening'
              /\ outbox'[c] = << >>
              /\ \A d \in Conns \ {c} :
                   /\ SameEntry(d)
                   /\ readyState'[d] = readyState[d]
                   /\ outbox'[d] = outbox[d]]_vars

\* every handle is an OPEN, registered, anonymous connection at once
C3_Witness ==
  \A c \in Conns :
     /\ c \in DOMAIN clients
     /\ clients[c] = Anonymous
     /\ readyState[c] = "OPEN"

\* C4: for every identity string u, an upgrade request whose token verifies
\* to u is accepted and registered under exactly u.
C4_ValidTokenBindsIdentity ==
  [][\A url \in Urls :
       (handleUpgrade(url) /\ url.defined /\ Valid(url.token, now))
       => LET c == NextHandle
          IN  /\ c \in DOMAIN clients'
              /\ clients'[c] = url.token.username
              /\ readyState'[c] = "OPEN"]_vars

\* C5: verifyToken(generateToken(u)) is u while the expiry time has not been
\* reached and null from then on; a token signed with another secret is
\* never valid.
C5_VerifyRoundTrip ==
  authResult.fn = "verifyToken" =>
    LET token == authResult.token
        t     == authResult.at
    IN  /\ \A u \in Identities, iat \in 0..t :
             token = generateToken(u, iat) =>
               authResult.result =
                 IF t < iat + Duration(tokenExpiry) THEN u ELSE NULL
        /\ Tampered(token) => authResult.result = NULL

\* alice's token, issued at time 0, verified once it has expired
C5_Witness ==
  /\ authResult.fn = "verifyToken"
  /\ authResult.token = generateToken("alice", 0)
  /\ authResult.at >= Duration(tokenExpiry)
  /\ authResult.result = NULL

\* C6: verifyToken never raises to its caller: a token that is malformed,
\* tampered with or expired yields null; and the call changes nothing but
\* its own result.
C6_VerifyNeverRaises ==
  /\ [](authResult.fn = "verifyToken" =>
          /\ authResult.result # RAISED
          /\ (\/ authResult.token.kind \in {"garbage", "empty"}
              \/ Tampered(authResult.token)
              \/ Expired(authResult.token, authResult.at))
             => authResult.result = NULL)
  /\ [][\A token \in Tokens :
          VerifyTokenCall(token) =>
            UNCHANGED <<secretKey, tokenExpiry, beforeSend, afterSend, onMessage,
                        clients, wssClients, wssState, readyState, listening,
                        user, recvEnded, outbox, now, frames, calls>>]_vars

\* a string that is no JWT was verified and gave null
C6_Witness ==
  /\ authResult.fn = "verifyToken"
  /\ authResult.token = GarbageToken
  /\ authResult.result = NULL

\* C7: a rejected socket is sent {"error":"Authentication Failed"}, then
\* the close frame with code 1008, and nothing else, ever.
C7_RejectedOutbox ==
  \A c \in Conns : Rejected(c) => outbox[c] = <<AuthFailed, CloseFrame(1008)>>

\* a rejected socket that is still in wss.clients after a fan-out pass
\* wrote to a registered peer
C7_Witness ==
  \E c \in Conns, d \in DOMAIN clients :
     /\ Rejected(c)
     /\ c \in wssClients
     /\ outbox[c] = <<AuthFailed, CloseFrame(1008)>>
     /\ \E i \in 1..Len(outbox[d]) : outbox[d][i].tag = "msg"

\* C8: whenever an inbound frame on a registered connection fails to decode,
\* the server sends {"error":"Invalid JSON format"} to it and then starts
\* its close, and no hook, handler or broadcast sees the frame.
C8_DecodeFailureReply ==
  [][\A c \in Conns, frame \in Undecodable,
        pre \in Outcomes, post \in Outcomes, h \in Outcomes :
       MessageEvent(c, frame, pre, post, h)
       => /\ outbox'[c] = outbox[c] \o <<InvalidJson, CloseFrame(0)>>
          /\ readyState'[c] = "CLOSING"
          /\ calls' = << >>]_vars

\* C9: a decode failure on c changes nothing about any other connection:
\* lifecycle state, registry entry, bound identity and outbox stay the same.
C9_DecodeFailureFrame ==
  [][\A c \in Conns, frame \in Undecodable,
        pre \in Outcomes, post \in Outcomes, h \in Outcomes :
       MessageEvent(c, frame, pre, post, h)
       => \A d \in Conns \ {c} :
            /\ readyState'[d] = readyState[d]
            /\ SameEntry(d)
            /\ user'[d] = user[d]
            /\ outbox'[d] = outbox[d]]_vars

\* c was answered "Invalid JSON format" and is closing; its registered peer
\* is OPEN and has been sent nothing
C9_Witness ==
  \E c, d \in DOMAIN clients :
     /\ c # d
     /\ outbox[c] = <<InvalidJson, CloseFrame(0)>>
     /\ readyState[c] = "CLOSING"
     /\ readyState[d] = "OPEN"
     /\ outbox[d] = << >>

\* C10: once a frame on c has failed to decode, no later frame arriving on
\* c reaches the pre-hook, the custom handler or the broadcast.
C10_DecodeFailureTerminal ==
  [][\A c \in Conns, frame \in PipelineFrames,
        pre \in Outcomes, post \in Outcomes, h \in Outcomes :
       (MessageEvent(c, frame, pre, post, h) /\ InvalidJson \in Range(outbox[c]))
       => calls' = << >>]_vars

InternalError == ErrorPayload("Internal server error")

\* how often a payload occurs in an outbox
Count(seq, x) == Cardinality({i \in 1..Len(seq) : seq[i] = x})

\* with the hooks and the handler as configured now, the processing of a
\* decoded message throws when they behave as pre, post and h say
Throws(pre, post, h) ==
  IF onMessage THEN h = "throw"
  ELSE (beforeSend /\ pre = "throw") \/ (afterSend /\ post = "throw")

\* C11: when a hook or the custom handler throws while a message from c is
\* processed, c keeps its lifecycle state, its registry entry, its listeners
\* and its bound identity, and the hooks stay as configured; every envelope
\* that arrives on c after such a failure is dispatched, stamped with c's
\* identity, like any other.
C11_FailureKeepsConnection ==
  /\ [][\A c \in Conns, frame \in Envelopes,
           pre \in Outcomes, post \in Outcomes, h \in Outcomes :
          (MessageEvent(c, frame, pre, post, h) /\ Throws(pre, post, h))
          => /\ readyState'[c] = readyState[c]
             /\ SameEntry(c)
             /\ c \in DOMAIN clients'
             /\ UNCHANGED <<listening, user, recvEnded, hooks, wssClients>>]_vars
  /\ [][\A c \in Conns, frame \in Envelopes,
           pre \in Outcomes, post \in Outcomes, h \in Outcomes :
          (/\ MessageEvent(c, frame, pre, post, h)
           /\ InternalError \in Range(outbox[c]))
          => /\ calls' # << >>
             /\ \A i \in 1..Len(calls') :
                  calls'[i].message = Frame("object", clients[c], frame.content)
             /\ (~onMessage /\ ~(beforeSend /\ pre = "throw")) =>
                  \A p \in Conns : readyState[p] = "OPEN" =>
                     MsgPayload(clients[c], frame.content) \in Range(outbox'[p])]_vars

\* c was answered "Internal server error" for its first frame, is still OPEN
\* and registered, and its second frame has been broadcast to it
C11_Witness ==
  \E c \in DOMAIN clients :
     /\ readyState[c] = "OPEN"
     /\ outbox[c] = <<InternalError, MsgPayload(clients[c], "hi")>>
     /\ \E i \in 1..Len(calls) : calls[i].fn = "broadcast"

\* C12: every message whose processing throws makes the server send exactly
\* one {"error":"Internal server error"} payload, to the sending connection
\* and to no other.
C12_OneErrorToSender ==
  [][\A c \in Conns, frame \in Envelopes,
        pre \in Outcomes, post \in Outcomes, h \in Outcomes :
       (MessageEvent(c, frame, pre, post, h) /\ Throws(pre, post, h))
       => /\ Count(outbox'[c], InternalError) = Count(outbox[c], InternalError) + 1
          /\ \A d \in Conns \ {c} :
               Count(outbox'[d], InternalError) = Count(outbox[d], InternalError)]_vars

\* the positions in a call sequence at which fn was invoked
Idx(seq, fn) == {i \in 1..Len(seq) : seq[i].fn = fn}

\* the message the listener of c hands on for an envelope frame
Stamped(c, frame) == Frame("object", user[c], frame.content)

\* C13: every dispatched message takes exactly one of two paths, chosen by
\* whether a custom handler is set when it is dispatched.  With a handler: it
\* is invoked once, no hook and no fan-out runs, and nothing but the error
\* reply for a throwing handler is written to anyone.  Without: the default
\* sequence starts (pre-hook if set, else the fan-out) and no handler is
\* invoked.
C13_OnePathPerMessage ==
  [][\A c \in Conns, frame \in Envelopes,
        pre \in Outcomes, post \in Outcomes, h \in Outcomes :
       MessageEvent(c, frame, pre, post, h)
       => IF onMessage
          THEN /\ calls' = <<Call("onMessage", Stamped(c, frame), h)>>
               /\ \A p \in Conns \ {c} : outbox'[p] = outbox[p]
               /\ outbox'[c] \in {outbox[c], Append(outbox[c], InternalError)}
          ELSE /\ Idx(calls', "onMessage") = {}
               /\ calls' # << >>
               /\ calls'[1].fn = IF beforeSend THEN "beforeSend" ELSE "broadcast"
               /\ calls'[1].message = Stamped(c, frame)]_vars

\* the custom handler took a message from c while both connections were
\* OPEN and registered: nobody was written to
C13_Witness ==
  /\ onMessage
  /\ Len(calls) = 1 /\ calls[1].fn = "onMessage" /\ calls[1].outcome = "return"
  /\ \A p \in Conns :
       p \in DOMAIN clients /\ readyState[p] = "OPEN" /\ outbox[p] = << >>

\* C14: in the default sequence the pre-hook, if set, is invoked before
\* anything is written (a throwing pre-hook leaves every outbox without the
\* message), the post-hook, if set, is invoked after the fan-out has written
\* the message to every OPEN socket, and each hook is invoked at most once
\* per message.
C14_HookOrder ==
  [][\A c \in Conns, frame \in Envelopes,
        pre \in Outcomes, post \in Outcomes, h \in Outcomes :
       (MessageEvent(c, frame, pre, post, h) /\ ~onMessage)
       => LET B == Idx(calls', "beforeSend")
              F == Idx(calls', "broadcast")
              A == Idx(calls', "afterSend")
              msg == MsgPayload(user[c], frame.content)
          IN  /\ Cardinality(B) = (IF beforeSend THEN 1 ELSE 0)
              /\ Cardinality(F) <= 1
              /\ Cardinality(A) <= 1
              /\ \A i \in B, j \in F \cup A : i < j
              /\ \A j \in F, k \in A : j < k
              /\ A # {} => F # {}
              /\ (beforeSend /\ pre = "throw") =>
                   /\ F = {} /\ A = {}
                   /\ \A p \in Conns : Count(outbox'[p], msg) = Count(outbox[p], msg)
              /\ (afterSend /\ ~(beforeSend /\ pre = "throw")) => A # {}
              /\ A # {} =>
                   \A p \in Conns : readyState[p] = "OPEN" =>
                      /\ Len(outbox'[p]) > Len(outbox[p])
                      /\ outbox'[p][Len(outbox[p]) + 1] = msg]_vars

\* both hooks ran around a fan-out; the post-hook threw after the message
\* had been written to the sender and to its peer
C14_Witness ==
  /\ Len(calls) = 3
  /\ calls[1].fn = "beforeSend" /\ calls[2].fn = "broadcast"
  /\ calls[3].fn = "afterSend" /\ calls[3].outcome = "throw"
  /\ \E c, p \in DOMAIN clients :
       /\ c # p
       /\ outbox[p] = <<MsgPayload(clients[c], "hi")>>
       /\ outbox[c] = <<MsgPayload(clients[c], "hi"), InternalError>>

\* a step in which the listener of c ran a fan-out pass for an envelope
FanOut(c, frame, pre, post, h) ==
  /\ MessageEvent(c, frame, pre, post, h)
  /\ ~onMessage
  /\ ~(beforeSend /\ pre = "throw")

\* the sockets whose outbox gained msg as the first thing written in a step
WrittenTo(msg) ==
  {p \in Conns : /\ Len(outbox'[p]) > Len(outbox[p])
                 /\ outbox'[p][Len(outbox[p]) + 1] = msg}

\* C15: a fan-out pass writes nothing to a socket that is not OPEN, raises
\* nothing on its account (no error reply unless a hook threw), and writes
\* the message to every socket that is OPEN, whatever else is in wss.clients.
C15_ClosingPeerSkipped ==
  [][\A c \in Conns, frame \in Envelopes,
        pre \in Outcomes, post \in Outcomes, h \in Outcomes :
       FanOut(c, frame, pre, post, h)
       => /\ \A p \in Conns : readyState[p] # "OPEN" => outbox'[p] = outbox[p]
          /\ \A i \in Idx(calls', "broadcast") : calls'[i].outcome = "return"
          /\ ~Throws(pre, post, h) =>
               \A p \in Conns : Count(outbox'[p], InternalError)
                                  = Count(outbox[p], InternalError)
          /\ \A p \in Conns : readyState[p] = "OPEN" =>
               p \in WrittenTo(MsgPayload(user[c], frame.content))]_vars

\* a fan-out pass has just run with a registered CLOSING peer in
\* wss.clients: the peer got nothing, the OPEN sender got the message
C15_Witness ==
  \E c, p \in DOMAIN clients :
     /\ p \in wssClients /\ readyState[p] = "CLOSING" /\ outbox[p] = << >>
     /\ readyState[c] = "OPEN" /\ outbox[c] = <<MsgPayload(clients[c], "hi")>>
     /\ Idx(calls, "broadcast") # {}

\* C16: the OPEN sockets of wss.clients are at all times the OPEN entries of
\* the registry, and a fan-out pass writes to exactly those: never to a
\* socket that is not registered (one rejected at the upgrade included),
\* and to every registered socket that is OPEN.
C16_FanOutIsOpenRegistry ==
  /\ []({p \in wssClients : readyState[p] = "OPEN"}
          = {p \in DOMAIN clients : readyState[p] = "OPEN"})
  /\ [][\A c \in Conns, frame \in Envelopes,
           pre \in Outcomes, post \in Outcomes, h \in Outcomes :
          FanOut(c, frame, pre, post, h)
          => /\ WrittenTo(MsgPayload(user[c], frame.content))
                  = {p \in DOMAIN clients : readyState[p] = "OPEN"}
             /\ \A p \in Conns : Rejected(p) => outbox'[p] = outbox[p]]_vars

\* a fan-out pass has just run while a rejected socket was still in
\* wss.clients: the registered sender got the message, the rejected socket
\* only what the rejection wrote
C16_Witness ==
  \E r \in wssClients, c \in DOMAIN clients :
     /\ Rejected(r)
     /\ outbox[r] = <<AuthFailed, CloseFrame(1008)>>
     /\ outbox[c] = <<MsgPayload(clients[c], "hi")>>
     /\ Idx(calls, "broadcast") # {}

\* C17: whatever upgrades, closes and messages preceded it, one fan-out pass
\* writes its message to each socket at most once and does not fail: the
\* broadcast call returns, and no error reply is sent unless a hook threw.
C17_AtMostOnce ==
  [][\A c \in Conns, frame \in Envelopes,
        pre \in Outcomes, post \in Outcomes, h \in Outcomes :
       MessageEvent(c, frame, pre, post, h)
       => LET msg == MsgPayload(user[c], frame.content)
          IN  /\ \A p \in Conns :
                   Count(outbox'[p], msg) <= Count(outbox[p], msg) + 1
              /\ Cardinality(Idx(calls', "broadcast")) <= 1
              /\ \A i \in Idx(calls', "broadcast") : calls'[i].outcome = "return"
              /\ ~Throws(pre, post, h) =>
                   \A p \in Conns :
                      Count(outbox'[p], InternalError) = Count(outbox[p], InternalError)]_vars

\* two fan-out passes ran while a second connection came and went in
\* between: the sender holds one copy of each message, the peer, which was
\* there for one pass only, holds one
C17_Witness ==
  \E c, p \in Conns :
     /\ c # p
     /\ c \in DOMAIN clients /\ readyState[c] = "OPEN"
     /\ Len(outbox[c]) = 2 /\ Count(outbox[c], MsgPayload(clients[c], "hi")) = 2
     /\ readyState[p] \in {"CLOSING", "CLOSED"}
     /\ outbox[p] = <<MsgPayload(clients[c], "hi")>>
     /\ Idx(calls, "broadcast") # {}

Last(seq) == seq[Len(seq)]

C20_StopEmptiesRegistry ==
  /\ [][close => \A c \in DOMAIN clients : readyState[c] = "OPEN" =>
                    Last(outbox'[c]) = CloseFrame(1001)]_vars
  /\ [][\A c \in Conns : CloseFrame(1001) \in Range(outbox[c])
                           => CloseFrame(1001) \in Range(outbox'[c])]_vars
  /\ (wssState = "CLOSING") ~> [](DOMAIN clients = {})

\* after close() every connection has seen 1001, all closes have completed
\* and the registry is empty
C20_Witness ==
  /\ wssState = "CLOSING"
  /\ DOMAIN clients = {}
  /\ \A c \in Conns :
       /\ readyState[c] = "CLOSED"
       /\ outbox[c] # << >>
       /\ Last(outbox[c]) = CloseFrame(1001)

\* C21: close() is a no-op on every registered socket that is already
\* CLOSING (nothing is written to it, its state stays), still sends the
\* close frame 1001 to every registered socket that is OPEN, and returns;
\* a second close() changes no socket, no outbox and not the registry.
C21_SweepTolerant ==
  [][close =>
       /\ \A c \in DOMAIN clients : readyState[c] # "OPEN" =>
            outbox'[c] = outbox[c] /\ readyState'[c] = readyState[c]
       /\ \A c \in DOMAIN clients : readyState[c] = "OPEN" =>
            /\ outbox'[c] = Append(outbox[c], CloseFrame(1001))
            /\ readyState'[c] = "CLOSING"
       /\ Len(calls') = Cardinality(DOMAIN clients) + 1
       /\ Last(calls') = AcceptorClose
       /\ wssState' = "CLOSING"
       /\ wssState = "CLOSING" =>
            readyState' = readyState /\ outbox' = outbox /\ clients' = clients]_vars

\* close() has just run over a registry with one socket that was already
\* CLOSING after a decode failure and one that was OPEN
C21_Witness ==
  /\ Len(calls) = 3 /\ Last(calls) = AcceptorClose
  /\ \E c, d \in DOMAIN clients :
       /\ outbox[c] = <<InvalidJson, CloseFrame(0)>> /\ readyState[c] = "CLOSING"
       /\ outbox[d] = <<CloseFrame(1001)>> /\ readyState[d] = "CLOSING"

\* C22: the 'close' event of c leaves c without a registry entry and changes
\* nothing about any other connection: registry entry, bound identity,
\* lifecycle state and outbox stay, and so do the hooks and the acceptor.
C22_CloseUnregistersOnlySelf ==
  [][\A c \in Conns :
       CloseEvent(c)
       => /\ c \notin DOMAIN clients'
          /\ readyState'[c] = "CLOSED"
          /\ \A d \in Conns \ {c} :
               /\ SameEntry(d)
               /\ user'[d] = user[d]
               /\ readyState'[d] = readyState[d]
          /\ UNCHANGED <<outbox, hooks, wssState>>]_vars

\* an accepted connection has closed and is gone from the registry while
\* its peer is still registered and OPEN
C22_Witness ==
  \E c \in listening, d \in DOMAIN clients :
     /\ readyState[c] = "CLOSED"
     /\ c \notin DOMAIN clients
     /\ readyState[d] = "OPEN"
     /\ calls = << >>

\* C23: an 'error' event on a connection changes neither the registry nor
\* any outbox nor any other connection, and the server keeps running.
C23_ErrorOnlyLogged ==
  [][\A c \in Conns :
       (ErrorEvent(c) \/ UnhandledErrorEvent(c))
       => /\ clients' = clients
          /\ outbox' = outbox
          /\ wssState' = wssState
          /\ \A d \in Conns \ {c} : readyState'[d] = readyState[d]]_vars

\* C24: the registry holds an entry, the bound identity, for exactly the
\* accepted connections whose 'close' event has not been emitted, and for
\* no rejected or closed connection.
C24_RegistryIsLiveAccepted ==
  /\ DOMAIN clients = {c \in listening : readyState[c] \in {"OPEN", "CLOSING"}}
  /\ DOMAIN clients \subseteq wssClients
  /\ \A c \in DOMAIN clients : clients[c] = user[c]
  /\ \A c \in Conns : Rejected(c) \/ readyState[c] \in {"NONE", "CLOSED"}
                        => c \notin DOMAIN clients

\* one accepted connection is closing and still registered; the other
\* handle was rejected and has closed
C24_Witness ==
  \E c \in DOMAIN clients, r \in Conns :
     /\ readyState[c] = "CLOSING"
     /\ Rejected(r) /\ readyState[r] = "CLOSED"
     /\ DOMAIN clients = {c}

\* C25: whatever failures have happened, the server is still running unless
\* close() was called: with a free handle a no-token upgrade is accepted,
\* and a fan-out pass still writes to every OPEN connection.
C25_NothingFatal ==
  /\ [](wssState \in {"RUNNING", "CLOSING"})
  /\ [][\A url \in Urls :
          (handleUpgrade(url) /\ ~url.defined)
          => \E c \in Conns : c = NextHandle /\ c \in DOMAIN clients']_vars

\* C26: the passing of time changes no connection, and a connection that
\* was accepted with alice's token keeps its readyState and its registry
\* entry, and has its envelopes dispatched and broadcast under "alice",
\* when the token has expired.
C26_ExpiryOnlyAtUpgrade ==
  /\ [][Tick => UNCHANGED <<clients, wssClients, readyState, listening, user,
                            recvEnded, outbox>>]_vars
  /\ [][\A c \in Conns, frame \in Envelopes,
           pre \in Outcomes, post \in Outcomes, h \in Outcomes :
          (/\ MessageEvent(c, frame, pre, post, h)
           /\ user[c] = "alice"
           /\ Expired(AliceUrl.token, now))
          => /\ readyState'[c] = readyState[c]
             /\ SameEntry(c)
             /\ clients[c] = "alice"
             /\ calls' # << >>
             /\ \A i \in 1..Len(calls') :
                  calls'[i].message = Frame("object", "alice", frame.content)
             /\ FanOut(c, frame, pre, post, h) =>
                  \A p \in Conns : readyState[p] = "OPEN" =>
                     p \in WrittenTo(MsgPayload("alice", frame.content))]_vars

\* alice's token has expired (a second upgrade with it was rejected), and a
\* frame of the connection accepted with it earlier has just been broadcast
\* under her name
C26_Witness ==
  \E c \in DOMAIN clients, r \in Conns :
     /\ Expired(AliceUrl.token, now)
     /\ clients[c] = "alice" /\ readyState[c] = "OPEN"
     /\ Rejected(r)
     /\ Idx(calls, "broadcast") # {}
     /\ outbox[c] = <<MsgPayload("alice", "hi")>>

\* C27: whatever JSON a decodable frame carried, the message handed to a
\* hook, to the custom handler and to the fan-out has the sending
\* connection's bound identity as its sender, and no payload written to any
\* peer carries a sender other than a bound identity.
C27_SenderIsBoundIdentity ==
  /\ [][\A c \in Conns, frame \in Envelopes \cup OtherJson,
           pre \in Outcomes, post \in Outcomes, h \in Outcomes :
          MessageEvent(c, frame, pre, post, h)
          => /\ calls' # << >>
             /\ \A i \in 1..Len(calls') : calls'[i].message.sender = clients[c]]_vars
  /\ [](\A p \in Conns : \A i \in 1..Len(outbox[p]) :
          /\ outbox[p][i].tag = "msg" => outbox[p][i].sender \in {Anonymous, "alice"}
          /\ outbox[p][i].tag = "array" => outbox[p][i].sender = ABSENT)

\* the pre-hook was handed alice's message, which then reached her
\* anonymous peer, with alice as its sender
C27_Witness ==
  /\ calls # << >>
  /\ calls[1].fn = "beforeSend"
  /\ calls[1].message = Frame("object", "alice", "hi")
  /\ \E p \in DOMAIN clients :
       clients[p] = Anonymous /\ outbox[p] = <<MsgPayload("alice", "hi")>>

\* a frame is a message envelope if it is a JSON object with a content
IsEnvelope(frame) == frame.kind = "object" /\ frame.content # ABSENT

\* C28: a frame that is not a message envelope (not JSON, a bare number or
\* string, null, an array, an object without content) is answered as a
\* decode failure and reaches no hook, no handler and no peer.
C28_OnlyEnvelopesDispatched ==
  [][\A c \in Conns, frame \in AllFrames,
        pre \in Outcomes, post \in Outcomes, h \in Outcomes :
       (MessageEvent(c, frame, pre, post, h) /\ ~IsEnvelope(frame))
       => /\ calls' = << >>
          /\ \A p \in Conns \ {c} : outbox'[p] = outbox[p]]_vars

\* C30: accepting a connection leaves every registered connection as it
\* was, also one bound to the same identity: both are registered side by
\* side, and a fan-out pass writes to every registered OPEN connection,
\* whatever identities they share.
C30_KeyedByHandle ==
  /\ [][\A url \in {NoUrl, AliceUrl}, c \in Conns :
          (handleUpgrade(url) /\ c = NextHandle /\ c \in DOMAIN clients')
          => \A d \in Conns \ {c} :
               /\ SameEntry(d)
               /\ readyState'[d] = readyState[d]
               /\ outbox'[d] = outbox[d]]_vars
  /\ [][\A c \in Conns, frame \in Envelopes,
           pre \in Outcomes, post \in Outcomes, h \in Outcomes :
          FanOut(c, frame, pre, post, h)
          => \A p \in DOMAIN clients : readyState[p] = "OPEN" =>
               p \in WrittenTo(MsgPayload(user[c], frame.content))]_vars

\* two connections are registered as alice at once, both OPEN, and both
\* hold the message one of them sent
C30_Witness ==
  /\ \A c \in Conns :
       /\ c \in DOMAIN clients /\ clients[c] = "alice"
       /\ readyState[c] = "OPEN"
       /\ outbox[c] = <<MsgPayload("alice", "hi")>>
  /\ Idx(calls, "broadcast") # {}

\* C29: the secret and the expiry of the service are never empty: they are
\* the caller's values where the caller gave non-empty ones and the
\* defaults "default_secret" and "1h" where the caller gave none or an empty
\* string; tokens are signed with the secret they are verified with, so a
\* fresh token verifies to its username.
C29_SecretNeverEmpty ==
  /\ Truthy(secretKey)
  /\ Truthy(tokenExpiry)
  /\ \E options \in Options :
       /\ secretKey = IF Truthy(options.secretKey)
                      THEN options.secretKey ELSE "default_secret"
       /\ tokenExpiry = IF Truthy(options.tokenExpiry)
                        THEN options.tokenExpiry ELSE "1h"
  /\ \A u \in Identities :
       /\ generateToken(u, now).key = secretKey
       /\ verifyToken(generateToken(u, now), now) = u

\* a service built without a usable secret or expiry has verified a token
\* it issued under the defaults
C29_Witness ==
  /\ secretKey = "default_secret"
  /\ tokenExpiry = "1h"
  /\ authResult.fn = "verifyToken"
  /\ authResult.token = generateToken("alice", 0)
  /\ authResult.result = "alice"

\* C31: setLifecycleHooks(pre, post) sets both hooks to what was passed, an
\* omitted one to none, and touches neither the custom handler nor any
\* connection; the next message on any connection runs the hooks as they
\* are set then.
C31_HooksReplaced ==
  /\ [][\A pre \in BOOLEAN, post \in BOOLEAN :
          setLifecycleHooks(pre, post)
          => /\ beforeSend' = pre
             /\ afterSend' = post
             /\ UNCHANGED <<onMessage, clients, wssClients, wssState, readyState,
                            listening, user, outbox>>]_vars
  /\ [][\A c \in Conns, frame \in Envelopes,
           pre \in Outcomes, post \in Outcomes, h \in Outcomes :
          (MessageEvent(c, frame, pre, post, h) /\ ~onMessage)
          => /\ (Idx(calls', "beforeSend") # {}) = beforeSend
             /\ (Idx(calls', "afterSend") # {})
                  = (afterSend /\ ~(beforeSend /\ pre = "throw"))]_vars

\* a connection had its first frame stopped by a throwing pre-hook; the
\* hooks were then cleared, and its second frame was broadcast with no hook
\* invoked
C31_Witness ==
  /\ ~beforeSend /\ ~afterSend /\ ~onMessage
  /\ Len(calls) = 1 /\ calls[1].fn = "broadcast"
  /\ \E c \in DOMAIN clients :
       outbox[c] = <<InternalError, MsgPayload(clients[c], "hi")>>

\* C33: when the pre-hook throws, the message is written to nobody and the
\* post-hook is not invoked; when the post-hook throws, every socket that
\* was OPEN has the message already, and nothing written to an outbox is
\* ever taken back.
C33_HookFailureEffects ==
  /\ [][\A c \in Conns, frame \in Envelopes,
           pre \in Outcomes, post \in Outcomes, h \in Outcomes :
          (MessageEvent(c, frame, pre, post, h) /\ ~onMessage)
          => LET msg == MsgPayload(user[c], frame.content)
             IN  /\ (beforeSend /\ pre = "throw") =>
                      /\ WrittenTo(msg) = {}
                      /\ \A p \in Conns \ {c} : outbox'[p] = outbox[p]
                      /\ Idx(calls', "afterSend") = {}
                      /\ Idx(calls', "broadcast") = {}
                 /\ (afterSend /\ post = "throw" /\ ~(beforeSend /\ pre = "throw")) =>
                      /\ WrittenTo(msg) = {p \in Conns : readyState[p] = "OPEN"}
                      /\ Last(calls').fn = "afterSend"]_vars
  /\ [][\A p \in Conns :
          /\ Len(outbox'[p]) >= Len(outbox[p])
          /\ SubSeq(outbox'[p], 1, Len(outbox[p])) = outbox[p]]_vars

\* the pre-hook has just thrown for a message of c: c holds only the error
\* reply, its OPEN peer holds nothing
C33_Witness ==
  /\ Len(calls) = 1 /\ calls[1].fn = "beforeSend" /\ calls[1].outcome = "throw"
  /\ \E c, p \in DOMAIN clients :
       /\ c # p
       /\ outbox[c] = <<InternalError>>
       /\ readyState[p] = "OPEN" /\ outbox[p] = << >>

\* C32: a frame that arrives on a rejected socket changes nothing: it is
\* not answered, reaches no hook, handler or fan-out, and a rejected socket
\* never holds more than the rejection; every message that is dispatched
\* arrived on a connection that is in the registry, and carries its identity.
C32_RejectedNeverHeard ==
  /\ [][\A c \in Conns :
          UnheardMessageEvent(c)
          => /\ calls' = << >>
             /\ UNCHANGED <<outbox, clients, wssClients, readyState, listening, user>>]_vars
  /\ [](\A c \in Conns : Rejected(c) => outbox[c] = <<AuthFailed, CloseFrame(1008)>>)
  /\ [][\A c \in Conns, frame \in PipelineFrames,
           pre \in Outcomes, post \in Outcomes, h \in Outcomes :
          (MessageEvent(c, frame, pre, post, h) /\ calls' # << >>)
          => /\ c \in DOMAIN clients
             /\ ~Rejected(c)
             /\ \A i \in 1..Len(calls') : calls'[i].message.sender = clients[c]]_vars

\* every frame so far was sent by clients that had been rejected: nobody
\* was ever accepted, and the rejected socket holds the rejection only
C32_Witness ==
  /\ frames = MaxFrames
  /\ listening = {}
  /\ calls = << >>
  /\ \E r \in wssClients :
       Rejected(r) /\ outbox[r] = <<AuthFailed, CloseFrame(1008)>>

\* C34: an upgrade request with "?token=" is accepted, registered as
\* "Anonymous" and left OPEN with nothing written to it, and changes no
\* other connection; it is never rejected.
C34_EmptyTokenIsNoToken ==
  /\ [][(handleUpgrade(EmptyUrl) /\ extractToken(EmptyUrl) = EmptyToken)
          => \E c \in Conns :
               /\ c = NextHandle
               /\ c \in DOMAIN clients'
               /\ clients'[c] = Anonymous
               /\ readyState'[c] = "OPEN"
               /\ c \in listening'
               /\ outbox'[c] = << >>
               /\ \A d \in Conns \ {c} :
                    /\ SameEntry(d)
                    /\ readyState'[d] = readyState[d]
                    /\ outbox'[d] = outbox[d]]_vars
  /\ [](\A c \in Conns : ~Rejected(c) /\ AuthFailed \notin Range(outbox[c]))

\* two clients that connected with "?token=" are registered as Anonymous,
\* and one has broadcast to both
C34_Witness ==
  /\ \A c \in Conns :
       /\ c \in DOMAIN clients /\ clients[c] = Anonymous
       /\ readyState[c] = "OPEN"
       /\ outbox[c] = <<MsgPayload(Anonymous, "hi")>>
  /\ Idx(calls, "broadcast") # {}

\* C35: no upgrade request with a valid token ends up registered under
\* "Anonymous".
C35_AnonymousMeansNoToken ==
  [][\A url \in GateUrls, c \in Conns :
       (/\ handleUpgrade(url)
        /\ c = NextHandle
        /\ url.defined
        /\ Valid(url.token, now))
       => ~(c \in DOMAIN clients' /\ clients'[c] = Anonymous)]_vars

\* C36: once close() has been called no socket the acceptor holds is OPEN,
\* so every fan-out pass that still runs (frames keep arriving on CLOSING
\* connections and are dispatched) has no recipient and no outbox gains a
\* broadcast payload.
C36_NoDeliveryAfterClose ==
  /\ [](wssState # "RUNNING"
          => \A c \in wssClients \cup DOMAIN clients : readyState[c] # "OPEN")
  /\ [][wssState # "RUNNING"
          => /\ wssState' # "RUNNING"
             /\ \A p \in Conns :
                  \A i \in 1..Len(outbox'[p]) :
                    i > Len(outbox[p]) => outbox'[p][i].tag \notin {"msg", "array"}]_vars
  /\ [][(/\ wssState = "CLOSING"
           /\ frames' = frames + 1
           /\ Idx(calls', "broadcast") # {})
          => /\ Recipients(Tr(readyState, outbox)) = {}
             /\ outbox' = outbox]_vars

\* after close() a frame of a registered, CLOSING connection went through
\* the fan-out, and its peer, swept by close() as well, holds the close
\* frame and no message
C36_Witness ==
  /\ wssState = "CLOSING"
  /\ Idx(calls, "broadcast") # {}
  /\ \E c, p \in DOMAIN clients :
       /\ c # p
       /\ readyState[c] = "CLOSING" /\ readyState[p] = "CLOSING"
       /\ outbox[c] = <<CloseFrame(1001)>>
       /\ outbox[p] = <<CloseFrame(1001)>>

Rank(rs) == CASE rs = "NONE"    -> 0
              [] rs = "OPEN"    -> 1
              [] rs = "CLOSING" -> 2
              [] rs = "CLOSED"  -> 3

\* C38: a connection's lifecycle state never moves back; while the process
\* lives it moves one stage at a time (a rejected one is CLOSING at the end
\* of the step that created it); a connection that has left the
\* registry, or was refused entry, is never registered later; and the
\* identity of a registered connection stays what it was at registration.
C38_LifecycleMonotonic ==
  /\ [][\A c \in Conns : Rank(readyState'[c]) >= Rank(readyState[c])]_vars
  /\ [][\A c \in Conns :
          (wssState' # "CRASHED" /\ readyState[c] # "NONE")
          => Rank(readyState'[c]) <= Rank(readyState[c]) + 1]_vars
  /\ [][\A c \in Conns :
          (readyState[c] # "NONE" /\ c \notin DOMAIN clients)
          => c \notin DOMAIN clients']_vars
  /\ [][\A c \in Conns :
          (c \in DOMAIN clients /\ c \in DOMAIN clients')
          => clients'[c] = clients[c]]_vars
  /\ [](\A c \in DOMAIN clients : clients[c] = user[c])

\* alice's connection went all the way to CLOSED and left the registry; the
\* anonymous connection accepted after it is registered and on its way out
C38_Witness ==
  \E c \in listening, d \in DOMAIN clients :
     /\ c < d
     /\ user[c] = "alice"
     /\ readyState[c] = "CLOSED"
     /\ c \notin DOMAIN clients
     /\ clients[d] = Anonymous
     /\ readyState[d] = "CLOSING"
     /\ wssState = "RUNNING"
====
